---------------------------- MODULE Spec2Model ----------------------------
(***************************************************************************)
(* App 2, the Flask API service of docker/app2/app.py.                     *)
(*                                                                         *)
(* One WSGI call is modelled as the steps Flask takes for it:              *)
(*   Receive -> before_request -> dispatch_request -> a view function or   *)
(*   an error handler -> after_request -> Send,                            *)
(* with the framework's fallback (internal_error, or re-raising to the     *)
(* server when the app runs in debug mode) for an exception that escapes   *)
(* the registered handlers.                                                *)
(*                                                                         *)
(* Time is counted in milliseconds; a float number of seconds is the       *)
(* integer number of milliseconds it stands for.  A print() to the         *)
(* standard output either succeeds or raises OSError, as the environment   *)
(* decides; the framework's own exception log (the logging module, on the  *)
(* error stream) never raises and is taken to be written.                  *)
(***************************************************************************)
EXTENDS Integers, Sequences, FiniteSets, TLC

VARIABLES
    FLASK_ENV,           \* the environment label, read once at import
    launcher,            \* "main": python app.py (app.run); "wsgi": imported by a server
    START_TIME,          \* wall-clock instant of the import, in ms
    now,                 \* the wall clock, in ms
    pc,                  \* position of the request in flight
    request,             \* the request in flight (or the last one served)
    exc,                 \* the exception being handled, with its context chain
    raised,              \* every exception raised while handling the request
    response,            \* the response being built (or the last one sent)
    from_error_handler,  \* finalize_request's flag
    log,                 \* the lines the request wrote to the process log
    lastUptime,          \* the uptime_seconds last reported (-1: none yet)
    baseline,            \* the last exchange in which no log write failed
    seconds,             \* format_uptime: the argument, in ms
    parts,               \* format_uptime: the list of parts
    uptime_text,         \* format_uptime: the returned string
    fpc                  \* format_uptime: "in" before the call, "out" after

svars == <<FLASK_ENV, launcher, START_TIME, now, pc, request, exc, raised,
           response, from_error_handler, log, lastUptime, baseline>>
fvars == <<seconds, parts, uptime_text, fpc>>
vars == <<FLASK_ENV, launcher, START_TIME, now, pc, request, exc, raised,
          response, from_error_handler, log, lastUptime, baseline,
          seconds, parts, uptime_text, fpc>>

----------------------------------------------------------------------------
(* Bounds of the model *)

\* the wall clock advances in steps of TickMs milliseconds
TickMs == 1234

\* the wall clock advances at most MaxTicks times
MaxTicks == 2

\* format_uptime is applied to every whole number of seconds up to MaxSeconds
MaxSeconds == 90061

\* the fractions of a second (in ms) added to them
Fracs == {0, 999}

----------------------------------------------------------------------------
(* Application metadata and configuration *)

APP_VERSION == "1.0.0"

APP_NAME == "app2-api-service"

Environments == {"development", "production"}

Launchers == {"main", "wsgi"}

Methods == {"GET", "HEAD", "POST", "OPTIONS"}

ValidPaths == <<"/", "/status", "/health", "/info", "/ping">>

KnownPaths == {ValidPaths[i] : i \in DOMAIN ValidPaths}

Paths == KnownPaths \cup {"/doesnotexist"}

ForwardedBy == {"unknown", "app1"}

----------------------------------------------------------------------------
(* Utility functions *)

\* get_uptime() reading the request's arrival instant instead of the import's
get_uptime_since_request == now - request.start_time

\* get_uptime(): time.time() - START_TIME
get_uptime == now - START_TIME

\* round(x, 2), as a number of hundredths (a tie is rounded up)
Round2(ms) == (ms + 5) \div 10

Days(ms) == ms \div (86400 * 1000)

\* hours computed without first taking the remainder of the days
HoursNoRemainder(ms) == ms \div (3600 * 1000)

Hours(ms) == (ms % (86400 * 1000)) \div (3600 * 1000)

Minutes(ms) == (ms % (3600 * 1000)) \div (60 * 1000)

Secs(ms) == (ms % (60 * 1000)) \div 1000

Part(n, unit) == [n |-> n, unit |-> unit]

\* format_uptime treating the seconds like the other units: appended only
\* when non-zero, unless nothing else was
UptimePartsSecondsIfNonZero(ms) ==
    LET higher ==
            (IF Days(ms) > 0 THEN <<Part(Days(ms), "d")>> ELSE <<>>)
            \o (IF Hours(ms) > 0 THEN <<Part(Hours(ms), "h")>> ELSE <<>>)
            \o (IF Minutes(ms) > 0 THEN <<Part(Minutes(ms), "m")>> ELSE <<>>)
    IN  IF Secs(ms) > 0 \/ Len(higher) = 0
        THEN higher \o <<Part(Secs(ms), "s")>>
        ELSE higher

\* the list `parts` that format_uptime builds
UptimeParts(ms) ==
    (IF Days(ms) > 0 THEN <<Part(Days(ms), "d")>> ELSE <<>>)
    \o (IF Hours(ms) > 0 THEN <<Part(Hours(ms), "h")>> ELSE <<>>)
    \o (IF Minutes(ms) > 0 THEN <<Part(Minutes(ms), "m")>> ELSE <<>>)
    \o <<Part(Secs(ms), "s")>>

\* f"{n}{unit}"
PartText(p) == ToString(p.n) \o p.unit

\* " ".join(parts)
RECURSIVE Join(_)
Join(ps) ==
    IF Len(ps) = 0 THEN ""
    ELSE IF Len(ps) = 1 THEN PartText(ps[1])
    ELSE PartText(ps[1]) \o " " \o Join(Tail(ps))

format_uptime(ms) == Join(UptimeParts(ms))

----------------------------------------------------------------------------
(* Exceptions *)

\* werkzeug.exceptions.NotFound, raised by the URL map for an unknown path
NotFound ==
    [type |-> "NotFound", code |-> 404,
     text |-> "404 Not Found: The requested URL was not found on the server."]

\* werkzeug.exceptions.MethodNotAllowed, raised for a known path whose rule
\* does not list the method
MethodNotAllowed ==
    [type |-> "MethodNotAllowed", code |-> 405,
     text |-> "405 Method Not Allowed: The method is not allowed for the requested URL."]

\* the class Flask has no attribute __version__ (the module flask has)
AttributeError ==
    [type |-> "AttributeError", code |-> 0,
     text |-> "type object 'Flask' has no attribute '__version__'"]

\* what print(..., flush=True) raises when the standard output cannot be written
OSError ==
    [type |-> "OSError", code |-> 0, text |-> "[Errno 32] Broken pipe"]

\* app.run(debug=(FLASK_ENV == "development")); an imported app is not in
\* debug mode.  In debug mode Flask re-raises what no handler has handled.
debug == launcher = "main" /\ FLASK_ENV = "development"

----------------------------------------------------------------------------
(* The process log *)

\* one write to the process log: the line, the error text it carries ("" for
\* none) and whether the stream took it
LogLine(line, error, written) ==
    [line |-> line, error |-> error, written |-> written]

\* log_request(): the line it prints
log_request ==
    "[App2] " \o request.method \o " " \o request.path
        \o " - Forwarded by: " \o request.forwarded_by

\* handle_exception printing the error only where it also shows it
ErrorLogDevelopmentOnly(error, written) ==
    IF FLASK_ENV = "development"
    THEN <<LogLine("[App2] Error: " \o error.text, error.text, written)>>
    ELSE <<>>

\* handle_exception's print of the error
ErrorLog(error, written) ==
    <<LogLine("[App2] Error: " \o error.text, error.text, written)>>

\* the framework's record of an exception no handler handled: the traceback,
\* with the chain of exceptions it was raised from
RECURSIVE Traceback(_)
Traceback(chain) ==
    IF Len(chain) = 0 THEN <<>>
    ELSE <<LogLine("Traceback: " \o chain[1].type \o ": " \o chain[1].text,
                   chain[1].text, TRUE)>> \o Traceback(Tail(chain))

LogFailed == \E i \in DOMAIN log : ~log[i].written

----------------------------------------------------------------------------
(* Responses *)

TimeKeys == {"timestamp", "uptime_seconds", "uptime"}

\* a body without the fields computed from the clock
Stable(body) == [k \in (DOMAIN body) \ TimeKeys |-> body[k]]

\* datetime.utcnow().isoformat() + "Z"
IsoZ(t) == [utc_ms |-> t, suffix |-> "Z"]

\* jsonify(body), status
jsonify(body, status, by) ==
    [status |-> status, body |-> body,
     headers |-> ("Content-Type" :> "application/json"), by |-> by]

\* f"{duration:.3f}s"
Pad3(n) == IF n < 10 THEN "00" \o ToString(n)
           ELSE IF n < 100 THEN "0" \o ToString(n) ELSE ToString(n)

ResponseTime(duration) ==
    ToString(duration \div 1000) \o "." \o Pad3(duration % 1000) \o "s"

home_body ==
    [service |-> APP_NAME,
     version |-> APP_VERSION,
     message |-> "App 2 API Service - Limbic Capital DevOps Assessment",
     status |-> "running",
     timestamp |-> IsoZ(now),
     endpoints |-> <<[path |-> "/", method |-> "GET"],
                     [path |-> "/status", method |-> "GET"],
                     [path |-> "/health", method |-> "GET"],
                     [path |-> "/info", method |-> "GET"]>>,
     protection |-> "Cloudflare Zero Trust Access"]

status_body ==
    [service |-> "app2",
     status |-> "ok",
     timestamp |-> IsoZ(now),
     uptime_seconds |-> Round2(get_uptime),
     uptime |-> format_uptime(get_uptime),
     version |-> APP_VERSION,
     environment |-> FLASK_ENV]

health_body ==
    [status |-> "healthy",
     service |-> APP_NAME,
     version |-> APP_VERSION,
     timestamp |-> IsoZ(now),
     uptime |-> [seconds |-> Round2(get_uptime),
                 formatted |-> format_uptime(get_uptime),
                 started_at |-> IsoZ(START_TIME)],
     environment |-> [flask_env |-> FLASK_ENV, log_level |-> "info"],
     checks |-> [api_responsive |-> TRUE,
                 can_connect |-> TRUE,
                 environment_loaded |-> TRUE]]

\* the dictionary info() starts to build; evaluating its "flask_version" entry
\* raises, so no body is ever returned
info_body ==
    [service_name |-> APP_NAME,
     version |-> APP_VERSION,
     author |-> "Limbic Capital",
     environment |-> FLASK_ENV,
     port |-> 5000]

ping_body ==
    [message |-> "pong", service |-> "app2", timestamp |-> IsoZ(now)]

AvailableEndpoints ==
    <<"GET /", "GET /status", "GET /health", "GET /info", "GET /ping">>

not_found_body ==
    [error |-> "Not Found",
     message |-> "Route " \o request.method \o " " \o request.path \o " not found",
     status_code |-> 404,
     timestamp |-> IsoZ(now),
     available_endpoints |-> AvailableEndpoints]

internal_error_body ==
    [error |-> "Internal Server Error",
     message |-> "Something went wrong",
     status_code |-> 500,
     timestamp |-> IsoZ(now)]

\* the message of handle_exception's body
ExceptionMessage(error) ==
    IF FLASK_ENV = "development" THEN error.text ELSE "Something went wrong"

handle_exception_body(error) ==
    [error |-> "Internal Server Error",
     message |-> ExceptionMessage(error),
     status_code |-> 500,
     timestamp |-> IsoZ(now)]

\* the answer Flask gives to OPTIONS on a rule: no view function is called
options_response ==
    [status |-> 200, body |-> [kind |-> "empty"],
     headers |-> ("Allow" :> "GET, HEAD, OPTIONS"), by |-> "options"]

\* what the server answers when the application raises: no JSON, none of the
\* application's headers
server_error_response ==
    [status |-> 500, body |-> [kind |-> "server error page"],
     headers |-> ("Content-Type" :> "text/html"), by |-> "server"]

----------------------------------------------------------------------------
(* The steps of a request *)

\* the wall clock advances: between two requests, and between the arrival of
\* a request and its view function
Tick ==
    /\ now + TickMs <= TickMs * (MaxTicks + 1)
    /\ pc \in {"idle", "view"}
    /\ now' = now + TickMs
    /\ UNCHANGED <<FLASK_ENV, launcher, START_TIME, pc, request, exc, raised,
                   response, from_error_handler, log, lastUptime, baseline>>
    /\ UNCHANGED fvars

\* a request arrives: Flask pushes a fresh request context
Receive(method, path, forwarded_by) ==
    /\ pc = "idle"
    /\ pc' = "before"
    /\ request' = [method |-> method, path |-> path,
                   forwarded_by |-> forwarded_by, start_time |-> -1]
    /\ exc' = <<>>
    /\ raised' = <<>>
    /\ response' = [status |-> 0, body |-> [kind |-> "none"], headers |-> <<>>, by |-> ""]
    /\ from_error_handler' = FALSE
    /\ log' = <<>>
    /\ UNCHANGED <<FLASK_ENV, launcher, START_TIME, now, lastUptime, baseline>>
    /\ UNCHANGED fvars

before_request ==
    /\ pc = "before"
    /\ request' = [request EXCEPT !.start_time = now]
    /\ pc' = "dispatch"
    /\ UNCHANGED <<FLASK_ENV, launcher, START_TIME, now, exc, raised, response,
                   from_error_handler, log, lastUptime, baseline>>
    /\ UNCHANGED fvars

\* the exception a statement raises, inside the handling of `chain`
Raise(error, chain) ==
    /\ exc' = Append(chain, error)
    /\ raised' = Append(raised, error)

\* the URL map built by the @app.route decorators: each rule takes GET, and
\* with it HEAD and OPTIONS
dispatch_request ==
    /\ pc = "dispatch"
    /\ IF request.path \notin KnownPaths
         THEN /\ Raise(NotFound, <<>>)
              /\ pc' = "user_exc"
              /\ UNCHANGED response
         ELSE IF request.method = "OPTIONS"
         THEN /\ response' = options_response
              /\ pc' = "finalize"
              /\ UNCHANGED <<exc, raised>>
         ELSE IF request.method \notin {"GET", "HEAD"}
         THEN /\ Raise(MethodNotAllowed, <<>>)
              /\ pc' = "user_exc"
              /\ UNCHANGED response
         ELSE /\ pc' = "view"
              /\ UNCHANGED <<exc, raised, response>>
    /\ UNCHANGED <<FLASK_ENV, launcher, START_TIME, now, request,
                   from_error_handler, log, lastUptime, baseline>>
    /\ UNCHANGED fvars

\* a view function: log_request(), then return jsonify(body); `fault` is the
\* exception that building the body raises, if any
View(path, name, body, fault, uptime) ==
    /\ pc = "view"
    /\ request.path = path
    /\ \E written \in BOOLEAN :
        /\ log' = Append(log, LogLine(log_request, "", written))
        /\ IF ~written
             THEN /\ Raise(OSError, <<>>)
                  /\ pc' = "user_exc"
                  /\ UNCHANGED <<response, lastUptime>>
             ELSE IF Len(fault) > 0
             THEN /\ Raise(fault[1], <<>>)
                  /\ pc' = "user_exc"
                  /\ UNCHANGED <<response, lastUptime>>
             ELSE /\ response' = jsonify(body, 200, name)
                  /\ pc' = "finalize"
                  /\ lastUptime' = IF Len(uptime) > 0 THEN uptime[1] ELSE lastUptime
                  /\ UNCHANGED <<exc, raised>>
    /\ UNCHANGED <<FLASK_ENV, launcher, START_TIME, now, request,
                   from_error_handler, baseline>>
    /\ UNCHANGED fvars

home == View("/", "home", home_body, <<>>, <<>>)

status == View("/status", "status", status_body, <<>>, <<status_body.uptime_seconds>>)

health == View("/health", "health", health_body, <<>>, <<health_body.uptime.seconds>>)

\* "flask_version": Flask.__version__ raises AttributeError
info == View("/info", "info", info_body, <<AttributeError>>, <<>>)

ping == View("/ping", "ping", ping_body, <<>>, <<>>)

\* Flask's choice of the error handler for an exception: first the handlers
\* registered for its HTTP code, then those registered for a class it is
\* an instance of
find_error_handler(error) ==
    IF error.code = 404 THEN "not_found"
    ELSE IF error.code = 500 THEN "internal_error"
    ELSE "handle_exception"

not_found ==
    /\ pc = "user_exc"
    /\ find_error_handler(exc[Len(exc)]) = "not_found"
    /\ response' = jsonify(not_found_body, 404, "not_found")
    /\ exc' = <<>>
    /\ pc' = "finalize"
    /\ UNCHANGED <<FLASK_ENV, launcher, START_TIME, now, request, raised,
                   from_error_handler, log, lastUptime, baseline>>
    /\ UNCHANGED fvars

handle_exception ==
    /\ pc = "user_exc"
    /\ find_error_handler(exc[Len(exc)]) = "handle_exception"
    /\ \E written \in BOOLEAN :
        /\ log' = log \o ErrorLog(exc[Len(exc)], written)
        /\ IF written
             THEN /\ response' = jsonify(handle_exception_body(exc[Len(exc)]),
                                         500, "handle_exception")
                  /\ exc' = <<>>
                  /\ pc' = "finalize"
                  /\ UNCHANGED raised
             ELSE /\ Raise(OSError, exc)
                  /\ pc' = "app_exc"
                  /\ UNCHANGED response
    /\ UNCHANGED <<FLASK_ENV, launcher, START_TIME, now, request,
                   from_error_handler, lastUptime, baseline>>
    /\ UNCHANGED fvars

\* the headers after_request sets
AfterHeaders(headers) ==
    LET named == headers @@ ("X-Service" :> APP_NAME) @@ ("X-Version" :> APP_VERSION)
    IN  IF request.start_time >= 0
        THEN ("X-Response-Time" :> ResponseTime(now - request.start_time)) @@ named
        ELSE named

\* after_request's development-mode line
ResponseLog(resp, written) ==
    IF FLASK_ENV = "development"
    THEN <<LogLine("[App2] Response: " \o ToString(resp.status) \o " - "
                       \o (IF "X-Response-Time" \in DOMAIN resp.headers
                           THEN resp.headers["X-Response-Time"] ELSE "N/A"),
                   "", written)>>
    ELSE <<>>

\* finalize_request: after_request on the response; what it raises goes to
\* the framework, unless the response already is the framework's answer to
\* an exception: then it is logged and the response is sent
after_request ==
    /\ pc = "finalize"
    /\ \E written \in (IF FLASK_ENV = "development" THEN BOOLEAN ELSE {TRUE}) :
        LET resp == [response EXCEPT !.headers = AfterHeaders(response.headers)]
        IN  IF written
            THEN /\ response' = resp
                 /\ log' = log \o ResponseLog(resp, TRUE)
                 /\ pc' = "send"
                 /\ UNCHANGED <<exc, raised>>
            ELSE IF from_error_handler
            THEN /\ response' = resp
                 /\ log' = log \o ResponseLog(resp, FALSE) \o Traceback(<<OSError>>)
                 /\ raised' = Append(raised, OSError)
                 /\ pc' = "send"
                 /\ UNCHANGED exc
            ELSE /\ log' = log \o ResponseLog(resp, FALSE)
                 /\ Raise(OSError, <<>>)
                 /\ pc' = "app_exc"
                 /\ UNCHANGED response
    /\ UNCHANGED <<FLASK_ENV, launcher, START_TIME, now, request,
                   from_error_handler, lastUptime, baseline>>
    /\ UNCHANGED fvars

\* an exception no handler handled, outside debug mode: Flask logs it and
\* answers with the handler registered for 500
internal_error ==
    /\ pc = "app_exc"
    /\ ~debug
    /\ find_error_handler([type |-> "InternalServerError", code |-> 500]) = "internal_error"
    /\ log' = log \o Traceback(exc)
    /\ response' = jsonify(internal_error_body, 500, "internal_error")
    /\ from_error_handler' = TRUE
    /\ exc' = <<>>
    /\ pc' = "finalize"
    /\ UNCHANGED <<FLASK_ENV, launcher, START_TIME, now, request, raised,
                   lastUptime, baseline>>
    /\ UNCHANGED fvars

\* the same in debug mode: Flask re-raises and the server answers
propagate_exception ==
    /\ pc = "app_exc"
    /\ debug
    /\ log' = log \o Traceback(exc)
    /\ response' = server_error_response
    /\ exc' = <<>>
    /\ pc' = "send"
    /\ UNCHANGED <<FLASK_ENV, launcher, START_TIME, now, request, raised,
                   from_error_handler, lastUptime, baseline>>
    /\ UNCHANGED fvars

\* the response goes out
Send ==
    /\ pc = "send"
    /\ pc' = "idle"
    /\ baseline' = IF LogFailed THEN baseline
                   ELSE [method |-> request.method, path |-> request.path,
                         status |-> response.status, body |-> Stable(response.body)]
    /\ UNCHANGED <<FLASK_ENV, launcher, START_TIME, now, request, exc, raised,
                   response, from_error_handler, log, lastUptime>>
    /\ UNCHANGED fvars

InitService ==
    /\ FLASK_ENV \in Environments
    /\ launcher \in Launchers
    /\ now = TickMs
    /\ START_TIME = now
    /\ pc = "idle"
    /\ request = [method |-> "", path |-> "", forwarded_by |-> "", start_time |-> -1]
    /\ exc = <<>>
    /\ raised = <<>>
    /\ response = [status |-> 0, body |-> [kind |-> "none"], headers |-> <<>>, by |-> ""]
    /\ from_error_handler = FALSE
    /\ log = <<>>
    /\ lastUptime = -1
    /\ baseline = [method |-> "", path |-> "", status |-> 0, body |-> [kind |-> "none"]]

Init ==
    /\ InitService
    /\ seconds = 0
    /\ parts = <<>>
    /\ uptime_text = ""
    /\ fpc = "in"

Next ==
    \/ Tick
    \/ \E method \in Methods, path \in Paths, forwarded_by \in ForwardedBy :
          Receive(method, path, forwarded_by)
    \/ before_request
    \/ dispatch_request
    \/ home
    \/ status
    \/ health
    \/ info
    \/ ping
    \/ not_found
    \/ handle_exception
    \/ after_request
    \/ internal_error
    \/ propagate_exception
    \/ Send

Spec == Init /\ [][Next]_vars

----------------------------------------------------------------------------
(* format_uptime on its own: every argument of the bounded range *)

InitFormat ==
    /\ seconds \in {s * 1000 + f : s \in 0..MaxSeconds, f \in Fracs}
    /\ parts = <<>>
    /\ uptime_text = ""
    /\ fpc = "in"

Format ==
    /\ fpc = "in"
    /\ parts' = UptimeParts(seconds)
    /\ uptime_text' = format_uptime(seconds)
    /\ fpc' = "out"
    /\ UNCHANGED seconds
    /\ UNCHANGED svars

InitFmt ==
    /\ InitFormat
    /\ InitService
    /\ FLASK_ENV = "production"
    /\ launcher = "main"

NextFmt == Format

SpecFmt == InitFmt /\ [][NextFmt]_vars

----------------------------------------------------------------------------
(* Properties *)

\* an exchange is complete: `response` went out in answer to `request`
Served == pc = "idle" /\ response.status # 0

Has(body, key) == key \in DOMAIN body

IsNotFoundBody(body) ==
    /\ Has(body, "error") /\ body.error = "Not Found"
    /\ Has(body, "status_code") /\ body.status_code = 404
    /\ Has(body, "message")
    /\ Has(body, "available_endpoints")

\* C1: every request other than GET on one of the five valid paths is
\* answered with 404 and the Not Found body (never 200, 405 or 500); stated
\* for the exchanges in which every log write succeeded.
C1_OtherRequestsGet404 ==
    (Served /\ ~LogFailed
        /\ ~(request.method = "GET" /\ request.path \in KnownPaths))
    => (response.status = 404 /\ IsNotFoundBody(response.body))

\* the value of a unit, computed from the whole seconds
UnitValue(unit, s) ==
    IF unit = "d" THEN s \div 86400
    ELSE IF unit = "h" THEN (s \div 3600) % 24
    ELSE IF unit = "m" THEN (s \div 60) % 60
    ELSE s % 60

Units == <<"d", "h", "m", "s">>

\* the parts the claim expects: every unit from the first non-zero one on
LeadingZeroUnitsOnly(s) ==
    LET first == IF UnitValue("d", s) > 0 THEN 1
                 ELSE IF UnitValue("h", s) > 0 THEN 2
                 ELSE IF UnitValue("m", s) > 0 THEN 3 ELSE 4
    IN  [i \in 1..(5 - first) |->
            Part(UnitValue(Units[first + i - 1], s), Units[first + i - 1])]

\* C2 as claimed: format_uptime omits only the leading zero units, so that
\* 3600 -> "1h 0m 0s", 86400 -> "1d 0h 0m 0s", 90000 -> "1d 1h 0m 0s".
C2_OmitsOnlyLeadingZeroUnits ==
    fpc = "out" =>
        /\ parts = LeadingZeroUnitsOnly(seconds \div 1000)
        /\ seconds = 3600 * 1000 => uptime_text = "1h 0m 0s"
        /\ seconds = 86400 * 1000 => uptime_text = "1d 0h 0m 0s"
        /\ seconds = 90000 * 1000 => uptime_text = "1d 1h 0m 0s"

\* C2 as the code has it: a days, hours or minutes part is emitted exactly
\* when that unit is non-zero, wherever it stands; the seconds part is always
\* emitted, last; the parts keep the order d, h, m, s and carry the truncated
\* values.  0 -> "0s", 59 -> "59s", 65 -> "1m 5s", 3661 -> "1h 1m 1s",
\* 3600 -> "1h 0s", 86400 -> "1d 0s", 90000 -> "1d 1h 0s".
C2_OmitsEveryZeroUnitButSeconds ==
    fpc = "out" =>
        LET s == seconds \div 1000
            rank(u) == CHOOSE i \in 1..4 : Units[i] = u
        IN  /\ \A u \in {"d", "h", "m"} :
                (\E i \in DOMAIN parts : parts[i].unit = u) <=> UnitValue(u, s) > 0
            /\ Len(parts) >= 1
            /\ parts[Len(parts)].unit = "s"
            /\ \A i \in DOMAIN parts :
                /\ parts[i].unit \in {"d", "h", "m", "s"}
                /\ parts[i].n = UnitValue(parts[i].unit, s)
            /\ \A i, j \in DOMAIN parts :
                i < j => rank(parts[i].unit) < rank(parts[j].unit)
            /\ seconds = 0 => uptime_text = "0s"
            /\ seconds = 59 * 1000 => uptime_text = "59s"
            /\ seconds = 65 * 1000 => uptime_text = "1m 5s"
            /\ seconds = 3661 * 1000 => uptime_text = "1h 1m 1s"
            /\ seconds = 3600 * 1000 => uptime_text = "1h 0s"
            /\ seconds = 86400 * 1000 => uptime_text = "1d 0s"
            /\ seconds = 90000 * 1000 => uptime_text = "1d 1h 0s"

\* a whole day formatted: the zero hours and minutes are left out
C2_Witness ==
    /\ fpc = "out"
    /\ seconds = 86400 * 1000
    /\ uptime_text = "1d 0s"

\* C3: the 500 response that handle_exception or internal_error builds
\* carries error "Internal Server Error", status_code 500 and the message
\* "Something went wrong" outside development, the raw text of the fault in
\* development.
C3_MessageRedactedUnlessDevelopment ==
    (Served /\ response.status = 500
        /\ response.by \in {"handle_exception", "internal_error"}) =>
        /\ Has(response.body, "error")
        /\ response.body.error = "Internal Server Error"
        /\ Has(response.body, "status_code")
        /\ response.body.status_code = 500
        /\ Has(response.body, "message")
        /\ IF FLASK_ENV = "development"
             THEN \E i \in DOMAIN raised : response.body.message = raised[i].text
             ELSE response.body.message = "Something went wrong"

\* C4: a failed log write never propagates (no OSError is ever being
\* handled) and never alters the response: an exchange in which a log write
\* failed has the status and the body of the exchange for the same method
\* and path in which none did.
C4_LogFailureLeavesResponseAlone ==
    /\ \A i \in DOMAIN exc : exc[i].type # "OSError"
    /\ (Served /\ LogFailed
          /\ baseline.method = request.method /\ baseline.path = request.path)
       => (/\ response.status = baseline.status
           /\ Stable(response.body) = baseline.body)

\* C5: every response sent carries X-Service and X-Version with the
\* service's name and version, which are not empty.
C5_EveryResponseNamesTheService ==
    Served =>
        /\ "X-Service" \in DOMAIN response.headers
        /\ response.headers["X-Service"] = APP_NAME
        /\ "X-Version" \in DOMAIN response.headers
        /\ response.headers["X-Version"] = APP_VERSION
        /\ APP_NAME # "" /\ APP_VERSION # ""

C7_FaultTextIsLogged ==
    (Served /\ response.status = 500) =>
        \A i \in DOMAIN raised :
            raised[i].code # 404 =>
                \E j \in DOMAIN log :
                    log[j].written /\ log[j].error = raised[i].text

\* a redacted 500 from handle_exception, the raw text on the log
C7_Witness ==
    /\ Served
    /\ response.status = 500
    /\ response.by = "handle_exception"
    /\ FLASK_ENV = "production"
    /\ response.body.message = "Something went wrong"
    /\ raised = <<AttributeError>>
    /\ \E j \in DOMAIN log : log[j].written /\ log[j].error = AttributeError.text

\* the 500 of internal_error, the raw text on the log
C7_WitnessInternalError ==
    /\ Served
    /\ response.status = 500
    /\ response.by = "internal_error"
    /\ \E j \in DOMAIN log : log[j].written /\ log[j].error = OSError.text

RequiredKeys(path) ==
    IF path = "/" THEN {"service", "version", "message", "status", "timestamp",
                        "endpoints", "protection"}
    ELSE IF path = "/status" THEN {"service", "status", "timestamp", "uptime_seconds",
                                   "uptime", "version", "environment"}
    ELSE IF path = "/health" THEN {"status", "service", "version", "timestamp",
                                   "uptime", "environment", "checks"}
    ELSE IF path = "/info" THEN {"service_name", "version", "environment", "port"}
    ELSE {"message", "service", "timestamp"}

\* C8: GET on each of the five valid paths is answered with 200 and the
\* keys of that route; /health with status "healthy" and the three checks
\* true, /ping with message "pong"; stated for the exchanges in which every
\* log write succeeded.
C8_ValidRoutesAnswer200 ==
    (Served /\ ~LogFailed /\ request.method = "GET" /\ request.path \in KnownPaths)
    => /\ response.status = 200
       /\ RequiredKeys(request.path) \subseteq DOMAIN response.body
       /\ request.path = "/health" =>
            /\ response.body.status = "healthy"
            /\ response.body.checks.api_responsive
            /\ response.body.checks.can_connect
            /\ response.body.checks.environment_loaded
       /\ request.path = "/ping" => response.body.message = "pong"

\* C9: a request to an unmatched path is answered with 404, error "Not
\* Found", status_code 404, a message naming its method and path, and the
\* five valid routes as available_endpoints.
C9_UnmatchedPathGets404 ==
    (Served /\ request.path \notin KnownPaths) =>
        /\ response.status = 404
        /\ IsNotFoundBody(response.body)
        /\ response.body.message =
              "Route " \o request.method \o " " \o request.path \o " not found"
        /\ Len(response.body.available_endpoints) = 5
        /\ {response.body.available_endpoints[i] : i \in 1..5}
              = {"GET " \o path : path \in KnownPaths}

\* the value a formatted string gives a unit: that of its part, 0 without one
ValueIn(ps, unit) ==
    IF \E i \in DOMAIN ps : ps[i].unit = unit
    THEN (CHOOSE p \in {ps[i] : i \in DOMAIN ps} : p.unit = unit).n
    ELSE 0

\* the seconds a formatted string stands for
Unformat(ps) ==
    ValueIn(ps, "d") * 86400 + ValueIn(ps, "h") * 3600
        + ValueIn(ps, "m") * 60 + ValueIn(ps, "s")

\* C10: the units of format_uptime(s) give s back: days*86400 + hours*3600
\* + minutes*60 + secs = s with hours < 24, minutes < 60, secs < 60, a unit
\* without a part counting 0, no unit with two parts; and s does not format
\* to the string of s+1, s+60, s+3600 or s+86400.
C10_UnitsReconstructSeconds ==
    (fpc = "out" /\ seconds % 1000 = 0) =>
        /\ Unformat(parts) = seconds \div 1000
        /\ \A i, j \in DOMAIN parts : parts[i].unit = parts[j].unit => i = j
        /\ ValueIn(parts, "d") >= 0
        /\ ValueIn(parts, "h") \in 0..23
        /\ ValueIn(parts, "m") \in 0..59
        /\ ValueIn(parts, "s") \in 0..59
        /\ \A delta \in {1, 60, 3600, 86400} :
            format_uptime(seconds + delta * 1000) # uptime_text

\* 1d 1h 1m 1s: every unit has its part
C10_Witness ==
    /\ fpc = "out"
    /\ seconds = 90061 * 1000
    /\ Len(parts) = 4
    /\ Unformat(parts) = 90061

=============================================================================
